---- MODULE Spec2Model ----
(***************************************************************************)
(* The room / worker-pool subsystem of `awaits`: the `shoot` decorator     *)
(* (src/awaits/shoot.py), the worker loop ThreadUnit.run                   *)
(* (src/awaits/units/thread_unit.py) and the decorator-ending helper       *)
(* (src/awaits/utils/end_of_wrappers.py).  Task, Room and RoomKeeper are   *)
(* imported by these files but their bodies are not part of the sources;   *)
(* they are modelled from their contract in spec.md sections 3 and 4.      *)
(***************************************************************************)
EXTENDS Integers, Sequences, FiniteSets, TLC

VARIABLES keeper, rooms, tasks, callers

vars == <<keeper, rooms, tasks, callers>>

------------------------------------------------------------------------------
(* Bounds of the model *)

\* total number of wrapped-function invocations (Tasks ever created)
MaxTasks == 2

\* the threads / coroutines that decorate and call
Callers == {"c1", "c2"}

------------------------------------------------------------------------------
(* Values *)

\* room names; "base" is the default of shoot.py line 12
RoomNames == {"base", "a"}
\* Python's None as the value of the `room` keyword
None == "None"
RoomArgs == RoomNames \cup {None}

\* the callables that get decorated, and some values that are not callable
Funcs == {"add", "boom"}
NonCallables == {"1"}
Values == Funcs \cup NonCallables
NoFunc == "nofunc"

\* positional argument tuples a decorator call can receive (shoot(*args))
DecoArgs == {<<>>} \cup {<<x>> : x \in Values} \cup {<<"add", "boom">>, <<"1", "1">>}

\* <<positional argument, keyword argument>> of an invocation of a wrapped
\* function
CallArgs == {<<2, 1>>}

\* an empty result / exception slot
NoValue == -1

\* classes of what can escape a call: Exception and its subclasses, or a
\* BaseException that is no Exception (SystemExit, KeyboardInterrupt, ...)
ExcClasses == {"Exception", "BaseException"}

callable(x) == x \in Funcs

\* What calling f(a, k=kw) directly does: "add" returns a + 10*kw,
\* "boom" raises an error identified by its argument.
Apply(f, a, kw) ==
  IF f = "add" THEN [kind |-> "return", val |-> a + 10 * kw]
  ELSE [kind |-> "raise", val |-> a]

------------------------------------------------------------------------------
(* shoot.py: the decorator *)

\* shoot.py lines 9-15: wrapper_of_wrapper(func) closes over func and room
\* and returns the wrapper
wrapper_of_wrapper(func, room) ==
  [kind |-> "wrapper", func |-> func, room |-> room]

\* mutant of shoot: the check of the positional arguments is missing
shoot_unchecked(args, room) ==
  IF Len(args) = 0
    THEN [kind |-> "factory", func |-> NoFunc, room |-> room]
    ELSE wrapper_of_wrapper(args[1], room)

\* shoot.py lines 8, 16-21: called with no positional argument it is a
\* decorator factory, with exactly one callable it decorates it, anything
\* else raises IncorrectUseOfTheDecoratorError
shoot(args, room) ==
  IF Len(args) = 0
    THEN [kind |-> "factory", func |-> NoFunc, room |-> room]
  ELSE IF Len(args) = 1 /\ callable(args[1])
    THEN wrapper_of_wrapper(args[1], room)
  ELSE [kind |-> "error", func |-> NoFunc, room |-> room]

\* end_of_wrappers.py lines 4-12: end_of_wrappers(args, wrapper), the ending
\* of a decorator given as a helper; deco is its parameter `wrapper`, the
\* decorator that is returned as it is or applied to the one callable
end_of_wrappers(args, deco) ==
  IF Len(args) = 0
    THEN deco
  ELSE IF Len(args) = 1 /\ callable(args[1])
    THEN wrapper_of_wrapper(args[1], deco.room)
  ELSE [kind |-> "error", func |-> NoFunc, room |-> deco.room]

\* mutant of room_name: another default name
room_name_other_default(room) == IF room = None THEN "a" ELSE room

\* shoot.py line 12: room_name = 'base' if room is None else room
room_name(room) == IF room = None THEN "base" ELSE room

\* mutant of wrapper: the keyword arguments are not forwarded
wrapper_drops_kwargs(w, a, kw) ==
  [room_name |-> room_name(w.room), function |-> w.func, args |-> a, kwargs |-> 0]

\* mutant of wrapper: a keyword argument of the invocation is taken for the
\* room
wrapper_routes_by_kwargs(w, a, kw) ==
  [room_name |-> IF kw = 1 THEN "a" ELSE room_name(w.room),
   function |-> w.func, args |-> a, kwargs |-> kw]

\* shoot.py lines 11-14: what one invocation wrapper(a, k=kw) hands to
\* RoomKeeper().room[room_name].do(func, *args, **kwargs)
wrapper(w, a, kw) ==
  [room_name |-> room_name(w.room), function |-> w.func, args |-> a, kwargs |-> kw]

------------------------------------------------------------------------------
(* Task: one deferred call and its outcome (spec.md 3 and 4.1) *)

\* Task.create(callable, args, kwargs): not completed, both slots empty.
\* room, call, runs, ranIn, reads and reread are history fields: the Room
\* it was enqueued in, what the caller asked for, how often and by the
\* workers of which Rooms do() was invoked, the outcomes its caller has read
\* so far and whether it has read more than once.
TaskCreate(function, args, kwargs, room, call) ==
  [function |-> function, args |-> args, kwargs |-> kwargs,
   done |-> FALSE, result |-> NoValue, error |-> FALSE, exception |-> NoValue,
   room |-> room, call |-> call, runs |-> 0, ranIn |-> {}, reads |-> {}, reread |-> FALSE]

\* Task.run(): call the function with the stored arguments; store the
\* return value as result, or capture the raised error as failure; mark
\* the task completed in both cases.
TaskDo(t) ==
  LET r == Apply(t.function, t.args, t.kwargs) IN
    IF r.kind = "return"
      THEN [t EXCEPT !.result = r.val, !.done = TRUE]
      ELSE [t EXCEPT !.error = TRUE, !.exception = r.val, !.done = TRUE]

\* Task.await_result(), once completed: yield the stored result or
\* re-raise the stored failure
TaskOutcome(t) ==
  IF t.error THEN [kind |-> "raise", val |-> t.exception]
  ELSE [kind |-> "return", val |-> t.result]

------------------------------------------------------------------------------
(* ThreadUnit: thread_unit.py *)

\* mutant of ThreadUnitInit: every worker is bound to the first Room's queue
ThreadUnitInitFirstQueue(queue, pool, index) ==
  [index |-> index, queue |-> 1, pool |-> pool,
   pc |-> "idle", task |-> 0, esc |-> "none"]

\* thread_unit.py lines 8-11: ThreadUnit(queue, pool, index).  The queue and
\* the pool are named by the Room that owns them.  pc is the position of the
\* thread in run(), task its local variable, esc the class of the exception
\* that ended the thread ("none" while it lives).
ThreadUnitInit(queue, pool, index) ==
  [index |-> index, queue |-> queue, pool |-> pool,
   pc |-> "idle", task |-> 0, esc |-> "none"]

\* mutant of QueueGet: the item is returned but stays in the queue
QueuePeek(q) == [item |-> Head(q), rest |-> q]

\* mutant of QueueGet: the newest item is taken, as from a LifoQueue
QueueGetNewest(q) == [item |-> q[Len(q)], rest |-> SubSeq(q, 1, Len(q) - 1)]

\* mutant of QueueGet: the second oldest item overtakes the oldest
QueueGetSecond(q) ==
  IF Len(q) >= 2
    THEN [item |-> q[2], rest |-> <<q[1]>> \o SubSeq(q, 3, Len(q))]
    ELSE [item |-> Head(q), rest |-> Tail(q)]

\* thread_unit.py line 19: queue.get() removes and returns the oldest item
QueueGet(q) == [item |-> Head(q), rest |-> Tail(q)]

\* mutant of RunTask: an error of the function is dropped on the worker
\* thread instead of being stored in the Task
RunTaskDropsError(t) ==
  IF Apply(t.function, t.args, t.kwargs).kind = "raise"
    THEN [t EXCEPT !.done = TRUE]
    ELSE TaskDo(t)

\* mutant of RunTask: a failure is stored next to a result, the failed
\* call's stand-in value 0
RunTaskResultWithError(t) ==
  IF Apply(t.function, t.args, t.kwargs).kind = "raise"
    THEN [TaskDo(t) EXCEPT !.result = 0]
    ELSE TaskDo(t)

\* thread_unit.py line 20: task.do()
RunTask(t) == TaskDo(t)

\* mutant of Catches: no `except` clause around the loop body
CatchesNothing(cls) == FALSE

\* thread_unit.py line 22: `except Exception` catches Exception and its
\* subclasses only
Catches(cls) == cls = "Exception"

------------------------------------------------------------------------------
(* Room and RoomKeeper (spec.md 3, 4.2 and 4.4) *)

\* A Room: its name, its FIFO queue of task ids with the count of
\* unfinished tasks queue.Queue keeps, and its fixed pool of n workers, all
\* bound to this Room's queue.  submitted is a history: the Tasks in the
\* order of their submission.
NewRoom(name, id, n) ==
  [name |-> name, queue |-> <<>>, unfinished |-> 0,
   units |-> [i \in 1..n |-> ThreadUnitInit(id, id, i)],
   submitted |-> <<>>]

\* the configured size of the pool of the Room of a name (spec.md 6, Room
\* configuration): the default Room has a single worker, any other has two
WorkerCount(name) == IF name = "base" THEN 1 ELSE 2

\* mutant of RoomKeeperGet: no look-up before the creation, the new Room
\* replaces the registered one
RoomKeeperGetAlwaysNew(kp, rms, name) ==
  [keeper |-> [kp EXCEPT ![name] = Len(rms) + 1],
   rooms |-> Append(rms, NewRoom(name, Len(rms) + 1, WorkerCount(name))),
   id |-> Len(rms) + 1]

\* RoomKeeper().room[name]: the Room registered under name, created with
\* its configured number of workers and registered when there is none yet;
\* one atomic step (spec.md 4.4: thread-safe single creation)
RoomKeeperGet(kp, rms, name) ==
  IF kp[name] # 0
    THEN [keeper |-> kp, rooms |-> rms, id |-> kp[name]]
    ELSE [keeper |-> [kp EXCEPT ![name] = Len(rms) + 1],
          rooms |-> Append(rms, NewRoom(name, Len(rms) + 1, WorkerCount(name))),
          id |-> Len(rms) + 1]

\* Room.submit / Room.do(func, *args, **kwargs): construct the Task, put it
\* at the tail of the queue, return the handle
RoomDo(rm, tid) ==
  [rm EXCEPT !.queue = Append(@, tid),
             !.unfinished = @ + 1,
             !.submitted = Append(@, tid)]

------------------------------------------------------------------------------
(* State *)

NewCaller ==
  [pc |-> "new", dargs |-> <<>>, droom |-> None, gf |-> NoFunc,
   w |-> [kind |-> "none", func |-> NoFunc, room |-> None],
   rm |-> 0, a |-> 0, kw |-> 0, handle |-> 0]

Init ==
  /\ keeper = [n \in RoomNames |-> 0]
  /\ rooms = <<>>
  /\ tasks = <<>>
  /\ callers = [c \in Callers |-> NewCaller]

------------------------------------------------------------------------------
(* The calling side *)

\* invocations begun so far: Tasks created plus calls between their two steps
Begun == Len(tasks) + Cardinality({c \in Callers : callers[c].pc = "resolved"})

\* a decorator call in neither of the two documented forms: its positional
\* arguments are not exactly one callable
IsMisuse(args) == ~(Len(args) = 0 \/ (Len(args) = 1 /\ callable(args[1])))

\* mutant of Runnable: a coroutine that waits for a Task that is not
\* completed waits synchronously and keeps the scheduler thread, so no other
\* coroutine runs meanwhile
RunnableUnlessWaiterBlocks(c) ==
  \A c2 \in Callers \ {c} :
    ~(callers[c2].pc = "awaiting" /\ ~tasks[callers[c2].handle].done)

\* whether the cooperative scheduler can run coroutine c: a coroutine that
\* waits for a Task is suspended and leaves the scheduler thread to the
\* others (spec.md 4.5), so a ready coroutine can always be run
Runnable(c) == TRUE

\* shoot(*args, room=room), lines 8-21.  An error raised binds nothing.  The
\* history fields: dargs keeps the positional arguments of a misuse, gf and
\* droom the function and the room the caller decorated with.
Decorate(c, args, room) ==
  /\ Runnable(c)
  /\ callers[c].pc = "new"
  /\ LET r == shoot(args, room) IN
       callers' = [callers EXCEPT ![c] =
         [@ EXCEPT !.dargs = IF IsMisuse(args) THEN args ELSE <<>>,
                   !.droom = IF r.kind = "error" THEN None ELSE room,
                   !.gf = IF r.kind = "wrapper" THEN args[1] ELSE NoFunc,
                   !.w = IF r.kind = "error" THEN @ ELSE r,
                   !.pc = CASE r.kind = "factory" -> "factory"
                            [] r.kind = "wrapper" -> "ready"
                            [] OTHER -> "misused"]]
  /\ UNCHANGED <<keeper, rooms, tasks>>

\* mutant of ApplyFactory: the decorator returned by the factory form has
\* lost the room it was made for
ApplyFactoryDropsRoom(c, f) ==
  /\ Runnable(c)
  /\ callers[c].pc = "factory"
  /\ callers' = [callers EXCEPT ![c] =
       [@ EXCEPT !.w = wrapper_of_wrapper(f, None), !.gf = f, !.pc = "ready"]]
  /\ UNCHANGED <<keeper, rooms, tasks>>

\* @shoot(room=...) applied to the function under it: wrapper_of_wrapper(f)
ApplyFactory(c, f) ==
  /\ Runnable(c)
  /\ callers[c].pc = "factory"
  /\ callers' = [callers EXCEPT ![c] =
       [@ EXCEPT !.w = wrapper_of_wrapper(f, @.room), !.gf = f, !.pc = "ready"]]
  /\ UNCHANGED <<keeper, rooms, tasks>>

\* wrapper(a, k=kw), lines 12-13, up to RoomKeeper().room[room_name]
CallResolve(c, a, kw) ==
  /\ Runnable(c)
  /\ callers[c].pc = "ready"
  /\ Begun < MaxTasks
  /\ LET req == wrapper(callers[c].w, a, kw)
         g == RoomKeeperGet(keeper, rooms, req.room_name) IN
       /\ keeper' = g.keeper
       /\ rooms' = g.rooms
       /\ callers' = [callers EXCEPT ![c] =
            [@ EXCEPT !.rm = g.id, !.a = a, !.kw = kw, !.pc = "resolved"]]
  /\ UNCHANGED tasks

\* mutant of CallSubmit: the Room's queue holds one item at most, and the
\* put of the submission blocks the caller while it is full
CallSubmitBounded(c) ==
  /\ Runnable(c)
  /\ callers[c].pc = "resolved"
  /\ rooms[callers[c].rm].queue = <<>>
  /\ LET me == callers[c]
         req == wrapper(me.w, me.a, me.kw)
         tid == Len(tasks) + 1
         call == [f |-> me.gf, room |-> me.droom, a |-> me.a, kw |-> me.kw,
                  by |-> c] IN
       /\ tasks' = Append(tasks,
            TaskCreate(req.function, req.args, req.kwargs, me.rm, call))
       /\ rooms' = [rooms EXCEPT ![me.rm] = RoomDo(@, tid)]
       /\ callers' = [callers EXCEPT ![c] =
            [@ EXCEPT !.handle = tid, !.rm = 0, !.a = 0, !.kw = 0, !.pc = "ready"]]
  /\ UNCHANGED keeper

\* wrapper, lines 13-14: .do(func, *args, **kwargs) on the Room found, and
\* return the task
CallSubmit(c) ==
  /\ Runnable(c)
  /\ callers[c].pc = "resolved"
  /\ LET me == callers[c]
         req == wrapper(me.w, me.a, me.kw)
         tid == Len(tasks) + 1
         call == [f |-> me.gf, room |-> me.droom, a |-> me.a, kw |-> me.kw,
                  by |-> c] IN
       /\ tasks' = Append(tasks,
            TaskCreate(req.function, req.args, req.kwargs, me.rm, call))
       /\ rooms' = [rooms EXCEPT ![me.rm] = RoomDo(@, tid)]
       /\ callers' = [callers EXCEPT ![c] =
            [@ EXCEPT !.handle = tid, !.rm = 0, !.a = 0, !.kw = 0, !.pc = "ready"]]
  /\ UNCHANGED keeper

\* the caller starts to await the handle it holds
AwaitBegin(c) ==
  /\ Runnable(c)
  /\ callers[c].pc = "ready"
  /\ callers[c].handle # 0
  /\ callers' = [callers EXCEPT ![c].pc = "awaiting"]
  /\ UNCHANGED <<keeper, rooms, tasks>>

\* mutant of AwaitResume: the read empties the Task's result slot
AwaitResumeConsuming(c) ==
  /\ Runnable(c)
  /\ callers[c].pc = "awaiting"
  /\ tasks[callers[c].handle].done
  /\ tasks' = [tasks EXCEPT
       ![callers[c].handle].reads = @ \cup {TaskOutcome(tasks[callers[c].handle])},
       ![callers[c].handle].reread = tasks[callers[c].handle].reads # {},
       ![callers[c].handle].result = NoValue]
  /\ callers' = [callers EXCEPT ![c].pc = "ready"]
  /\ UNCHANGED <<keeper, rooms>>

\* mutant of AwaitResume: the caller is resumed with whatever the slots
\* hold, without waiting for the completed flag
AwaitResumeEarly(c) ==
  /\ Runnable(c)
  /\ callers[c].pc = "awaiting"
  /\ tasks' = [tasks EXCEPT
       ![callers[c].handle].reads = @ \cup {TaskOutcome(tasks[callers[c].handle])},
       ![callers[c].handle].reread = tasks[callers[c].handle].reads # {}]
  /\ callers' = [callers EXCEPT ![c].pc = "ready"]
  /\ UNCHANGED <<keeper, rooms>>

\* the awaited Task is completed: the caller is resumed with its outcome
AwaitResume(c) ==
  /\ Runnable(c)
  /\ callers[c].pc = "awaiting"
  /\ tasks[callers[c].handle].done
  /\ tasks' = [tasks EXCEPT
       ![callers[c].handle].reads = @ \cup {TaskOutcome(tasks[callers[c].handle])},
       ![callers[c].handle].reread = tasks[callers[c].handle].reads # {}]
  /\ callers' = [callers EXCEPT ![c].pc = "ready"]
  /\ UNCHANGED <<keeper, rooms>>

------------------------------------------------------------------------------
(* ThreadUnit.run, thread_unit.py lines 13-23, for worker i of Room r *)

Unit(r, i) == rooms[r].units[i]

UnitIds == {<<r, i>> \in (1..Len(rooms)) \X (1..MaxTasks + 1) :
              i \in DOMAIN rooms[r].units}

\* line 22-23: an exception the clause catches is dropped and the loop goes
\* on; any other one ends run() and with it the thread
OnException(u, cls) ==
  IF Catches(cls)
    THEN [u EXCEPT !.pc = "idle", !.task = 0]
    ELSE [u EXCEPT !.pc = "dead", !.task = 0, !.esc = cls]

\* mutant of Get: the worker does not wait for the do() it has begun and
\* takes the next Task while it is still executing
GetWhileRunning(r, i) ==
  /\ Unit(r, i).pc \in {"idle", "running"}
  /\ rooms[Unit(r, i).queue].queue # <<>>
  /\ LET g == QueueGet(rooms[Unit(r, i).queue].queue) IN
       rooms' = [rooms EXCEPT ![Unit(r, i).queue].queue = g.rest,
                              ![r].units[i].pc = "got",
                              ![r].units[i].task = g.item]
  /\ UNCHANGED <<keeper, tasks, callers>>

\* line 19: task = self.queue.get(), blocking while the queue is empty
Get(r, i) ==
  /\ Unit(r, i).pc = "idle"
  /\ rooms[Unit(r, i).queue].queue # <<>>
  /\ LET g == QueueGet(rooms[Unit(r, i).queue].queue) IN
       rooms' = [rooms EXCEPT ![Unit(r, i).queue].queue = g.rest,
                              ![r].units[i].pc = "got",
                              ![r].units[i].task = g.item]
  /\ UNCHANGED <<keeper, tasks, callers>>

\* line 20: the call task.do() begins
DoStart(r, i) ==
  /\ Unit(r, i).pc = "got"
  /\ rooms' = [rooms EXCEPT ![r].units[i].pc = "running"]
  /\ tasks' = [tasks EXCEPT ![Unit(r, i).task].runs = @ + 1,
                            ![Unit(r, i).task].ranIn = @ \cup {r}]
  /\ UNCHANGED <<keeper, callers>>

\* line 20: task.do() returns
DoReturn(r, i) ==
  /\ Unit(r, i).pc = "running"
  /\ tasks' = [tasks EXCEPT ![Unit(r, i).task] = RunTask(@)]
  /\ rooms' = [rooms EXCEPT ![r].units[i].pc = "task_done"]
  /\ UNCHANGED <<keeper, callers>>

\* mutant of DoRaise: task_done() is called in a `finally`, also when do()
\* raises
DoRaiseTaskDone(r, i, cls) ==
  /\ Unit(r, i).pc = "running"
  /\ rooms' = [rooms EXCEPT ![r].units[i] = OnException(@, cls),
                            ![Unit(r, i).queue].unfinished = @ - 1]
  /\ UNCHANGED <<keeper, tasks, callers>>

\* line 20: an exception of class cls escapes task.do() itself, before the
\* Task has recorded anything
DoRaise(r, i, cls) ==
  /\ Unit(r, i).pc = "running"
  /\ rooms' = [rooms EXCEPT ![r].units[i] = OnException(@, cls)]
  /\ UNCHANGED <<keeper, tasks, callers>>

\* line 21: self.queue.task_done(); queue.Queue raises ValueError when it is
\* called more often than items were put
TaskDone(r, i) ==
  /\ Unit(r, i).pc = "task_done"
  /\ rooms' =
       IF rooms[Unit(r, i).queue].unfinished > 0
         THEN [rooms EXCEPT ![Unit(r, i).queue].unfinished = @ - 1,
                            ![r].units[i].pc = "idle",
                            ![r].units[i].task = 0]
         ELSE [rooms EXCEPT ![r].units[i] = OnException(@, "Exception")]
  /\ UNCHANGED <<keeper, tasks, callers>>

------------------------------------------------------------------------------

Next ==
  \/ \E c \in Callers, args \in DecoArgs, room \in RoomArgs : Decorate(c, args, room)
  \/ \E c \in Callers, f \in Funcs : ApplyFactory(c, f)
  \/ \E c \in Callers, x \in CallArgs : CallResolve(c, x[1], x[2])
  \/ \E c \in Callers : CallSubmit(c)
  \/ \E c \in Callers : AwaitBegin(c)
  \/ \E c \in Callers : AwaitResume(c)
  \/ \E u \in UnitIds : Get(u[1], u[2])
  \/ \E u \in UnitIds : DoStart(u[1], u[2])
  \/ \E u \in UnitIds : DoReturn(u[1], u[2])
  \/ \E u \in UnitIds, cls \in ExcClasses : DoRaise(u[1], u[2], cls)
  \/ \E u \in UnitIds : TaskDone(u[1], u[2])

Spec == Init /\ [][Next]_vars

\* The two calling conventions side by side: the first caller decorates in
\* the bare form only, shoot(f, room=r), the second in the factory form
\* only, shoot(room=r)(f); invocations and workers are as in Next, the
\* awaiting of the handles, which plays no part in the routing, is left out.
BareCaller == "c1"
FactoryCaller == "c2"

DecorateInForm(c, args, room) ==
  /\ c = BareCaller => Len(args) = 1 /\ callable(args[1])
  /\ c = FactoryCaller => Len(args) = 0
  /\ Decorate(c, args, room)

NextForms ==
  \/ \E c \in Callers, args \in DecoArgs, room \in RoomArgs : DecorateInForm(c, args, room)
  \/ \E c \in Callers, f \in Funcs : ApplyFactory(c, f)
  \/ \E c \in Callers, x \in CallArgs : CallResolve(c, x[1], x[2])
  \/ \E c \in Callers : CallSubmit(c)
  \/ \E u \in UnitIds : Get(u[1], u[2])
  \/ \E u \in UnitIds : DoStart(u[1], u[2])
  \/ \E u \in UnitIds : DoReturn(u[1], u[2])
  \/ \E u \in UnitIds, cls \in ExcClasses : DoRaise(u[1], u[2], cls)
  \/ \E u \in UnitIds : TaskDone(u[1], u[2])

FormsSpec == Init /\ [][NextForms]_vars
\* one pass of the loop of worker i of the Room registered under name n goes
\* a step further; the call of do() ends by returning or by raising
WorkerStep(n, i) ==
  /\ keeper[n] # 0
  /\ \/ Get(keeper[n], i)
     \/ DoStart(keeper[n], i)
     \/ DoReturn(keeper[n], i)
     \/ \E cls \in ExcClasses : DoRaise(keeper[n], i, cls)
     \/ TaskDone(keeper[n], i)

\* The threads of the workers are scheduled fairly and the wrapped functions
\* terminate: a worker that can go a step further eventually does; and the
\* scheduler eventually resumes a coroutine whose awaited Task is completed.
FairSpec ==
  /\ Spec
  /\ \A n \in RoomNames : \A i \in 1..WorkerCount(n) : WF_vars(WorkerStep(n, i))
  /\ \A c \in Callers : WF_vars(AwaitResume(c))

------------------------------------------------------------------------------
(* Helpers of the properties *)

TaskIds == 1..Len(tasks)
RoomIds == 1..Len(rooms)

\* what calling the decorated function directly with the invocation's
\* arguments does
Direct(t) == Apply(tasks[t].call.f, tasks[t].call.a, tasks[t].call.kw)

\* the positions of the queues at which task t waits
QueuedAt(t) ==
  {p \in RoomIds \X (1..MaxTasks + 1) :
     p[2] \in DOMAIN rooms[p[1]].queue /\ rooms[p[1]].queue[p[2]] = t}

\* the workers that have dequeued task t and not yet begun its do()
FetchedBy(t) == {u \in UnitIds : Unit(u[1], u[2]).pc = "got" /\ Unit(u[1], u[2]).task = t}

\* the workers that hold task t in their loop body
HeldBy(t) == {u \in UnitIds : Unit(u[1], u[2]).task = t}

------------------------------------------------------------------------------
(* The properties *)

\* C1: whenever the decorated function, called directly with the arguments
\* of the invocation, returns a value, every outcome the caller is resumed
\* with when awaiting the invocation is that same returned value.
C1_AwaitYieldsDirectResult ==
  \A t \in TaskIds :
    Direct(t).kind = "return" => tasks[t].reads \subseteq {Direct(t)}

\* a call add(2, k=1) has been awaited and has yielded 12
C1_Witness ==
  \E t \in TaskIds :
    /\ tasks[t].call.f = "add" /\ tasks[t].call.kw = 1
    /\ tasks[t].reads = {[kind |-> "return", val |-> 12]}

\* C2: when the decorated function raises E, a worker that has run the Task
\* leaves it completed with E stored as its failure and no result, and
\* every outcome an awaiting caller is resumed with is the raise of E.
C2_ErrorCapturedAndReraised ==
  \A t \in TaskIds :
    Direct(t).kind = "raise" =>
      /\ tasks[t].reads \subseteq {Direct(t)}
      /\ tasks[t].done =>
           /\ tasks[t].error
           /\ tasks[t].exception = Direct(t).val
           /\ tasks[t].result = NoValue
      /\ \A u \in HeldBy(t) : Unit(u[1], u[2]).pc = "task_done" => tasks[t].done

\* a call of the raising function has been awaited and has re-raised
C2_Witness ==
  \E t \in TaskIds :
    /\ tasks[t].call.f = "boom"
    /\ tasks[t].reads = {[kind |-> "raise", val |-> tasks[t].call.a]}

\* C3: every submitted Task is, at any moment, exactly one of: waiting once
\* in a queue, fetched by exactly one worker that has not begun it, or begun
\* exactly once; it is never held by two workers.  So when the queues are
\* drained N submissions have led to exactly N executions.
C3_ExactlyOnce ==
  [](\A t \in TaskIds :
      /\ Cardinality(QueuedAt(t)) + Cardinality(FetchedBy(t)) + tasks[t].runs = 1
      /\ Cardinality(HeldBy(t)) <= 1
      /\ Cardinality(tasks[t].ranIn) = tasks[t].runs)

\* two Tasks submitted by two callers to one Room are being executed by its
\* two workers at the same time, each begun once
C3_Witness ==
  \E t1, t2 \in TaskIds :
    /\ t1 # t2
    /\ tasks[t1].room = tasks[t2].room
    /\ tasks[t1].call.by # tasks[t2].call.by
    /\ tasks[t1].runs = 1 /\ tasks[t2].runs = 1
    /\ \E u1 \in HeldBy(t1), u2 \in HeldBy(t2) :
         /\ u1 # u2
         /\ Unit(u1[1], u1[2]).pc = "running"
         /\ Unit(u2[1], u2[2]).pc = "running"

\* a Task whose do() was begun and has ended without completing it: an
\* exception escaped do() itself
Escaped(t) == tasks[t].runs = 1 /\ ~tasks[t].done /\ HeldBy(t) = {}

\* C4, as claimed: a Worker never reaches a terminated state, whatever
\* escapes task.do().
C4_WorkerNeverTerminates ==
  \A u \in UnitIds : Unit(u[1], u[2]).pc # "dead"

\* C4, what run() does guarantee: a worker is terminated only by an escaping
\* exception that is no Exception (a bare BaseException); after an Exception
\* escaping do() it is back at the head of its loop, where it takes the next
\* Task as soon as its queue holds one.
C4_WorkerSurvivesExceptions ==
  \A u \in UnitIds :
    /\ Unit(u[1], u[2]).pc = "dead" => Unit(u[1], u[2]).esc = "BaseException"
    /\ Unit(u[1], u[2]).pc # "dead" => Unit(u[1], u[2]).esc = "none"
    /\ Unit(u[1], u[2]).pc = "idle" /\ rooms[Unit(u[1], u[2]).queue].queue # <<>>
         => ENABLED Get(u[1], u[2])

\* the one worker of a Room has swallowed an Exception that escaped one
\* Task's do() and has afterwards executed a later Task to completion
C4_SurvivedWitness ==
  \E t1, t2 \in TaskIds :
    /\ t1 < t2
    /\ tasks[t1].room = tasks[t2].room
    /\ Len(rooms[tasks[t1].room].units) = 1
    /\ Escaped(t1)
    /\ tasks[t2].done
    /\ Unit(tasks[t1].room, 1).pc = "idle"

\* the one worker of a Room has been ended by a BaseException that escaped a
\* Task's do(), and a Task submitted to the Room waits in its queue, where
\* no worker is left to take it
C4_Witness ==
  \E t1, t2 \in TaskIds :
    /\ tasks[t1].room = tasks[t2].room
    /\ Len(rooms[tasks[t1].room].units) = 1
    /\ Unit(tasks[t1].room, 1).pc = "dead"
    /\ Unit(tasks[t1].room, 1).esc = "BaseException"
    /\ tasks[t1].runs = 1 /\ ~tasks[t1].done
    /\ QueuedAt(t2) # {}
    /\ ~ENABLED Get(tasks[t1].room, 1)

\* the Tasks submitted to Room r before Task t
SubmittedBefore(r, t) ==
  {rooms[r].submitted[k] : k \in {j \in DOMAIN rooms[r].submitted :
      \E m \in DOMAIN rooms[r].submitted : j < m /\ rooms[r].submitted[m] = t}}

\* C5: in a Room with a single worker, at the step in which a Task begins
\* executing every Task submitted to the Room before it has begun already.
C5_SingleWorkerFifoStart ==
  [][\A t \in TaskIds :
       Len(rooms[tasks[t].room].units) = 1 /\ tasks[t].runs = 0 /\ tasks'[t].runs = 1 =>
         \A t0 \in SubmittedBefore(tasks[t].room, t) : tasks[t0].runs = 1]_vars

\* two Tasks were submitted to a single-worker Room and both have begun
C5_Witness ==
  \E r \in RoomIds :
    /\ Len(rooms[r].units) = 1
    /\ Len(rooms[r].submitted) = 2
    /\ \A k \in 1..2 : tasks[rooms[r].submitted[k]].runs = 1

\* C6: a worker only ever holds or begins Tasks that were submitted to the
\* Room it was created for, and its queue is that Room's queue.
C6_Isolation ==
  /\ \A u \in UnitIds :
       /\ Unit(u[1], u[2]).queue = u[1]
       /\ Unit(u[1], u[2]).task # 0 => tasks[Unit(u[1], u[2]).task].room = u[1]
  /\ \A t \in TaskIds : tasks[t].ranIn \subseteq {tasks[t].room}

\* two Rooms exist and each has executed a Task submitted to it
C6_Witness ==
  \E t1, t2 \in TaskIds :
    /\ tasks[t1].room # tasks[t2].room
    /\ tasks[t1].done /\ tasks[t2].done

\* C7: every invocation of a function decorated with no room and every
\* invocation of one decorated with room="base" is submitted to one and the
\* same Room instance, the one registered under the name "base".
C7_DefaultRoomIsBase ==
  /\ \A t \in TaskIds :
       tasks[t].call.room \in {None, "base"} =>
         /\ keeper["base"] # 0
         /\ tasks[t].room = keeper["base"]
         /\ rooms[tasks[t].room].name = "base"
         /\ t \in {rooms[tasks[t].room].submitted[k] :
                     k \in DOMAIN rooms[tasks[t].room].submitted}
  /\ \A c \in Callers :
       callers[c].pc = "resolved" /\ callers[c].droom \in {None, "base"} =>
         keeper["base"] # 0 /\ callers[c].rm = keeper["base"]

\* a call through @shoot and a call through @shoot(room="base") have been
\* submitted, to the same Room
C7_Witness ==
  \E t1, t2 \in TaskIds :
    /\ tasks[t1].call.room = None
    /\ tasks[t2].call.room = "base"
    /\ tasks[t1].room = tasks[t2].room

\* C8: a decorator call whose positional arguments are not exactly one
\* callable raises at once: the step binds no wrapper and leaves the Room
\* Keeper, every Room with its queue and every Task unchanged, and the
\* caller that misused the decorator never gets anything submitted.
C8_MisuseFailsFast ==
  [][\A c \in Callers :
       /\ callers[c].pc = "new" /\ IsMisuse(callers'[c].dargs) =>
            /\ callers'[c].pc = "misused"
            /\ callers'[c].w = callers[c].w
            /\ UNCHANGED <<keeper, rooms, tasks>>
       /\ callers[c].pc = "misused" => callers'[c] = callers[c]]_vars

\* shoot(1, 1) has raised while a Room with a queued Task existed
C8_Witness ==
  \E c \in Callers :
    /\ callers[c].pc = "misused"
    /\ callers[c].dargs = <<"1", "1">>
    /\ callers[c].w.kind = "none"
    /\ \E r \in RoomIds : rooms[r].queue # <<>>

\* the Room Keeper holds at most one Room per name, the one it resolves the
\* name to, and every call in flight and every Task is bound to the Room its
\* name resolves to
SingleRoomPerName ==
  /\ \A n \in RoomNames :
       /\ Cardinality({r \in RoomIds : rooms[r].name = n}) <= 1
       /\ keeper[n] # 0 => keeper[n] \in RoomIds /\ rooms[keeper[n]].name = n
  /\ \A r \in RoomIds : keeper[rooms[r].name] = r
  /\ \A c \in Callers :
       callers[c].pc = "resolved" => callers[c].rm = keeper[room_name(callers[c].droom)]
  /\ \A t \in TaskIds : tasks[t].room = keeper[room_name(tasks[t].call.room)]

\* C9: whatever the interleaving of the callers' first accesses, one Room is
\* created and retained per name, and a name that resolves to a Room
\* resolves to that same Room ever after.
C9_SingleCreation ==
  [][/\ SingleRoomPerName'
     /\ \A n \in RoomNames : keeper[n] # 0 => keeper'[n] = keeper[n]]_vars

\* both callers have made the first access to one name, neither has
\* submitted yet, and both hold the same Room
C9_Witness ==
  \E r \in RoomIds :
    /\ rooms[r].submitted = <<>>
    /\ \A c \in Callers : callers[c].pc = "resolved" /\ callers[c].rm = r

\* C10: a read of a completed Task changes nothing of the Task but the
\* history of its reads, and the outcomes read so far, this one included,
\* are all the one stored outcome.
C10_IdempotentRead ==
  [][\A c \in Callers :
       callers[c].pc = "awaiting" /\ callers'[c].pc = "ready" =>
         LET h == callers[c].handle IN
           /\ tasks[h].done
           /\ tasks'[h].reads = {TaskOutcome(tasks[h])}
           /\ TaskOutcome(tasks'[h]) = TaskOutcome(tasks[h])
           /\ tasks = [tasks' EXCEPT ![h].reads = tasks[h].reads,
                                     ![h].reread = tasks[h].reread]]_vars

\* a result and a failure have each been read twice
C10_Witness ==
  \E t1, t2 \in TaskIds :
    /\ tasks[t1].reread /\ tasks[t1].reads = {[kind |-> "return", val |-> 12]}
    /\ tasks[t2].reread /\ tasks[t2].reads = {[kind |-> "raise", val |-> 2]}

\* a coroutine that waits for a Task that is not completed
Waiting(c) == callers[c].pc = "awaiting" /\ ~tasks[callers[c].handle].done

C12_SubmissionNeverBlocks ==
  /\ [](\A c \in Callers :
          /\ callers[c].pc = "ready" /\ Begun < MaxTasks => ENABLED CallResolve(c, 2, 1)
          /\ callers[c].pc = "resolved" => ENABLED CallSubmit(c))
  /\ [][\A c \in Callers :
          callers[c].pc = "resolved" /\ callers'[c].pc # "resolved" =>
            /\ callers'[c].pc = "ready"
            /\ Len(tasks') = Len(tasks) + 1
            /\ callers'[c].handle = Len(tasks')
            /\ ~tasks'[Len(tasks')].done /\ tasks'[Len(tasks')].runs = 0
            /\ rooms'[callers[c].rm].queue = Append(rooms[callers[c].rm].queue, Len(tasks'))]_vars

\* a submission was made behind a Task still waiting in the queue, and its
\* caller holds the handle and is ready again while neither Task has been
\* begun
C12_Witness ==
  \E r \in RoomIds, c \in Callers :
    /\ Len(rooms[r].queue) = 2
    /\ callers[c].pc = "ready"
    /\ callers[c].handle = rooms[r].queue[2]
    /\ \A k \in 1..2 : tasks[rooms[r].queue[k]].runs = 0

\* the result slot, the failure slot of a Task is set
HasResult(t) == tasks[t].result # NoValue
HasFailure(t) == tasks[t].error \/ tasks[t].exception # NoValue

\* C13: a completed Task has exactly one of result and failure set, a Task
\* that is not completed has neither, and no step changes the completed
\* flag or the outcome of a completed Task.
C13_TaskOutcome ==
  /\ [](\A t \in TaskIds :
          /\ tasks[t].done => (HasResult(t) /\ ~HasFailure(t)) \/ (~HasResult(t) /\ HasFailure(t))
          /\ tasks[t].done /\ HasFailure(t) => tasks[t].error /\ tasks[t].exception # NoValue
          /\ ~tasks[t].done => ~HasResult(t) /\ ~HasFailure(t))
  /\ [][\A t \in TaskIds :
          tasks[t].done =>
            /\ tasks'[t].done
            /\ tasks'[t].result = tasks[t].result
            /\ tasks'[t].error = tasks[t].error
            /\ tasks'[t].exception = tasks[t].exception]_vars

\* one Task is completed with a result, another with a failure, and both
\* have been read by their callers since
C13_Witness ==
  \E t1, t2 \in TaskIds :
    /\ tasks[t1].done /\ HasResult(t1) /\ ~HasFailure(t1) /\ tasks[t1].reads # {}
    /\ tasks[t2].done /\ HasFailure(t2) /\ ~HasResult(t2) /\ tasks[t2].reads # {}

\* C14: a caller that waits for a Task that is not completed cannot be
\* resumed, and every Task an outcome of which has been read is completed,
\* by the one worker run of its do(), with what was read being its stored
\* outcome.
C14_NoReadBeforeCompleted ==
  [](/\ \A c \in Callers : Waiting(c) => ~ENABLED AwaitResume(c)
     /\ \A t \in TaskIds :
          tasks[t].reads # {} =>
            /\ tasks[t].done
            /\ tasks[t].runs = 1
            /\ tasks[t].reads = {TaskOutcome(tasks[t])})

\* a caller waits for a Task while a worker is executing its do()
C14_Witness ==
  \E c \in Callers :
    /\ Waiting(c)
    /\ \E u \in HeldBy(callers[c].handle) : Unit(u[1], u[2]).pc = "running"

\* every worker of the Room of Task t has ended
AllDead(t) == \A i \in DOMAIN rooms[tasks[t].room].units : Unit(tasks[t].room, i).pc = "dead"

\* C15, as claimed: under fair scheduling every submitted Task is eventually
\* completed, awaited or not, and every caller that awaits is eventually
\* resumed.
C15_RunsToCompletion ==
  /\ \A t \in 1..MaxTasks : (t \in TaskIds) ~> (t \in TaskIds /\ tasks[t].done)
  /\ \A c \in Callers : (callers[c].pc = "awaiting") ~> (callers[c].pc = "ready")

\* C15, what the loop does guarantee under fair scheduling: a submitted Task
\* is eventually completed unless an exception escapes its do() or every
\* worker of its Room has been ended by an escaping BaseException, and a
\* caller that awaits is eventually resumed with the same exceptions.
C15_CompletesUnlessEscape ==
  /\ \A t \in 1..MaxTasks :
       (t \in TaskIds) ~> (t \in TaskIds /\ (tasks[t].done \/ Escaped(t) \/ AllDead(t)))
  /\ \A c \in Callers :
       (callers[c].pc = "awaiting") ~>
          \/ callers[c].pc = "ready"
          \/ /\ callers[c].pc = "awaiting"
             /\ Escaped(callers[c].handle) \/ AllDead(callers[c].handle)

\* a caller awaits a Task that waits in the queue of a Room whose only
\* worker has been ended by a BaseException escaping an earlier Task's do()
C15_Witness ==
  \E c \in Callers :
    /\ Waiting(c)
    /\ QueuedAt(callers[c].handle) # {}
    /\ AllDead(callers[c].handle)

\* C16: in a Room with several workers, at the step in which any worker
\* dequeues a Task every Task submitted to the Room before it has been
\* dequeued already.
C16_MultiWorkerFifoDequeue ==
  [][\A t \in TaskIds :
       /\ Len(rooms[tasks[t].room].units) > 1
       /\ QueuedAt(t) # {}
       /\ \E i \in DOMAIN rooms[tasks[t].room].units : rooms'[tasks[t].room].units[i].task = t
       => \A t0 \in SubmittedBefore(tasks[t].room, t) : QueuedAt(t0) = {}]_vars

\* in a Room with two workers the Task submitted second is completed while
\* the Task submitted first, dequeued by the other worker, is not
C16_Witness ==
  \E r \in RoomIds :
    /\ Len(rooms[r].units) > 1
    /\ Len(rooms[r].submitted) = 2
    /\ tasks[rooms[r].submitted[2]].done
    /\ ~tasks[rooms[r].submitted[1]].done
    /\ \E u \in HeldBy(rooms[r].submitted[1]) : Unit(u[1], u[2]).pc \in {"got", "running"}

\* the decorator the factory form returns for room r
Factory(r) == [kind |-> "factory", func |-> NoFunc, room |-> r]

\* C17: for every callable f and room value r the bare form yields the
\* wrapper the factory form yields, and end_of_wrappers ends a decorator as
\* shoot does; a wrapper made in the bare form by one caller and one made in
\* the factory form by the other for the same f and r are the same wrapper,
\* equal invocations of the two are submitted to the same Room with the same
\* function and arguments, and every invocation is submitted to the Room
\* named r ("base" for none).
C17_FormsEquivalent ==
  /\ \A f \in Funcs, r \in RoomArgs :
       /\ shoot(<<>>, r) = Factory(r)
       /\ shoot(<<f>>, r) = wrapper_of_wrapper(f, shoot(<<>>, r).room)
  /\ \A args \in DecoArgs, r \in RoomArgs :
       end_of_wrappers(args, Factory(r)) = shoot(args, r)
  /\ LET b == callers[BareCaller]
         f == callers[FactoryCaller] IN
       /\ b.pc \in {"ready", "resolved", "awaiting"}
       /\ f.pc \in {"ready", "resolved", "awaiting"}
       /\ b.gf = f.gf /\ b.droom = f.droom
       => b.w = f.w
  /\ \A t1, t2 \in TaskIds :
       /\ tasks[t1].call.by = BareCaller /\ tasks[t2].call.by = FactoryCaller
       /\ tasks[t1].call.f = tasks[t2].call.f
       /\ tasks[t1].call.room = tasks[t2].call.room
       /\ tasks[t1].call.a = tasks[t2].call.a /\ tasks[t1].call.kw = tasks[t2].call.kw
       => /\ tasks[t1].room = tasks[t2].room
          /\ tasks[t1].function = tasks[t2].function
          /\ tasks[t1].args = tasks[t2].args /\ tasks[t1].kwargs = tasks[t2].kwargs
  /\ \A t \in TaskIds :
       /\ rooms[tasks[t].room].name = room_name(tasks[t].call.room)
       /\ tasks[t].function = tasks[t].call.f

\* the same function was decorated for room "a" in the bare form by one
\* caller and in the factory form by the other, each has invoked it, and
\* the two Tasks were submitted to the one Room named "a" in that order
C17_Witness ==
  \E t1, t2 \in TaskIds :
    /\ tasks[t1].call.by = BareCaller /\ tasks[t2].call.by = FactoryCaller
    /\ tasks[t1].call.f = tasks[t2].call.f
    /\ tasks[t1].call.room = "a" /\ tasks[t2].call.room = "a"
    /\ rooms[tasks[t1].room].name = "a"
    /\ rooms[tasks[t1].room].submitted = <<t1, t2>>

\* the Tasks of Room r whose do() has returned normally
Returned(r) == {t \in TaskIds : tasks[t].room = r /\ tasks[t].done}

\* the Tasks of Room r whose do() has returned normally and whose worker has
\* not yet made the call of task_done() that follows (between lines 20, 21)
BeforeTaskDone(r) ==
  {t \in Returned(r) : \E u \in HeldBy(t) : Unit(u[1], u[2]).pc = "task_done"}

\* C18, as claimed: in every state the unfinished count of a Room's queue is
\* the number of Tasks enqueued minus the number of Tasks whose do() has
\* returned normally, and it is not negative.
C18_UnfinishedIsEnqueuedMinusReturned ==
  \A r \in RoomIds :
    /\ rooms[r].unfinished = Len(rooms[r].submitted) - Cardinality(Returned(r))
    /\ rooms[r].unfinished >= 0

\* C18, amended: the unfinished count is the number of Tasks enqueued minus
\* the number of Tasks whose do() has returned normally and whose worker has
\* made the call of task_done() that follows it; it never counts down for a
\* Task whose do() raised, it is not negative, and task_done() never finds
\* it exhausted.
C18_UnfinishedAccounting ==
  [](\A r \in RoomIds :
      /\ rooms[r].unfinished =
           Len(rooms[r].submitted) - Cardinality(Returned(r) \ BeforeTaskDone(r))
      /\ rooms[r].unfinished >= 0
      /\ \A i \in DOMAIN rooms[r].units :
           Unit(r, i).pc = "task_done" => rooms[r].unfinished > 0 /\ tasks[Unit(r, i).task].done)

\* the worker of a Room has dropped an exception that escaped the do() of
\* one Task and has made the task_done() call for another: the queue is
\* empty, the worker idle, and one task is still counted as unfinished
C18_Witness ==
  \E r \in RoomIds :
    /\ Len(rooms[r].submitted) = 2
    /\ rooms[r].queue = <<>>
    /\ \A i \in DOMAIN rooms[r].units : Unit(r, i).pc = "idle"
    /\ \E t \in TaskIds : tasks[t].room = r /\ Escaped(t)
    /\ Cardinality(Returned(r)) = 1
    /\ rooms[r].unfinished = 1

\* argument values of an invocation, for the check of the wrapper alone
ArgValues == {0, 1, 2}

\* C19: a step of a valid decoration changes neither the Room Keeper nor any
\* Room nor any Task; the look-up of an invocation changes no queue; its
\* submission creates one Task from the decorated function and the
\* arguments passed, puts it at the tail of the queue of the Room named at
\* decoration time ("base" for none) and leaves every other Room as it was;
\* and no Task appears in any other step.  The wrapper takes the room from
\* the decoration alone, whatever the arguments.
C19_FrameOfDecorationAndCall ==
  /\ [](\A f \in Funcs, r \in RoomArgs, a \in ArgValues, kw \in ArgValues :
          wrapper(wrapper_of_wrapper(f, r), a, kw) =
            [room_name |-> room_name(r), function |-> f, args |-> a, kwargs |-> kw])
  /\ [][\A c \in Callers :
          /\ callers[c].pc \in {"new", "factory"} /\ callers'[c].pc # callers[c].pc
               => UNCHANGED <<keeper, rooms, tasks>>
          /\ callers[c].pc = "ready" /\ callers'[c].pc = "resolved"
               => /\ tasks' = tasks
                  /\ \A r \in RoomIds : rooms'[r] = rooms[r]
                  /\ \A r \in (1..Len(rooms')) \ RoomIds : rooms'[r].queue = <<>>
                  /\ rooms'[callers'[c].rm].name = room_name(callers[c].droom)
          /\ callers[c].pc = "resolved" /\ callers'[c].pc = "ready"
               => /\ Len(tasks') = Len(tasks) + 1
                  /\ \A t \in TaskIds : tasks'[t] = tasks[t]
                  /\ tasks'[Len(tasks')].function = callers[c].gf
                  /\ tasks'[Len(tasks')].args = callers[c].a
                  /\ tasks'[Len(tasks')].kwargs = callers[c].kw
                  /\ Len(rooms') = Len(rooms)
                  /\ \E r \in RoomIds :
                       /\ rooms[r].name = room_name(callers[c].droom)
                       /\ rooms'[r].queue = Append(rooms[r].queue, Len(tasks'))
                       /\ \A r2 \in RoomIds \ {r} : rooms'[r2] = rooms[r2]]_vars
  /\ [][Len(tasks') # Len(tasks) =>
          \E c \in Callers : callers[c].pc = "resolved" /\ callers'[c].pc = "ready"]_vars

\* a call decorated with no room waits in the queue of Room "base" and a
\* later call decorated with room "a" in the queue of Room "a": the second
\* submission found the first queue filled and left it as it was
C19_Witness ==
  \E t1, t2 \in TaskIds :
    /\ t1 < t2
    /\ tasks[t1].call.room = None /\ tasks[t2].call.room = "a"
    /\ keeper["base"] # 0 /\ rooms[keeper["base"]].queue = <<t1>>
    /\ keeper["a"] # 0 /\ rooms[keeper["a"]].queue = <<t2>>

\* the Tasks of Room r whose do() a worker is executing
Executing(r) ==
  {t \in TaskIds : tasks[t].room = r /\ tasks[t].runs > 0 /\
     \E u \in HeldBy(t) : Unit(u[1], u[2]).pc = "running"}

\* the Tasks of Room r whose do() has been begun and has not ended, neither
\* by returning nor by raising
Unended(r) ==
  {t \in TaskIds : tasks[t].room = r /\ tasks[t].runs > 0 /\ ~tasks[t].done /\ ~Escaped(t)}

\* C20: the pool of a Room has the size fixed at its creation; a worker
\* holds a Task exactly while it is between its get() and the end of the
\* loop pass, and two workers never hold the same Task; the Tasks a Room is
\* executing are never more than its workers; a worker dequeues only from
\* the head of its loop, holding nothing; and with one worker the do() of a
\* Task begins only when no other Task of the Room is begun and not ended.
C20_PoolBound ==
  /\ [](\A r \in RoomIds :
          /\ Len(rooms[r].units) = WorkerCount(rooms[r].name)
          /\ Cardinality(Executing(r)) <= Len(rooms[r].units)
          /\ Cardinality(Unended(r)) <= Len(rooms[r].units)
          /\ \A i \in DOMAIN rooms[r].units :
               /\ Unit(r, i).task # 0 <=> Unit(r, i).pc \in {"got", "running", "task_done"}
               /\ \A j \in DOMAIN rooms[r].units :
                    i # j /\ Unit(r, i).task # 0 => Unit(r, j).task # Unit(r, i).task)
  /\ [][\A r \in RoomIds : \A i \in DOMAIN rooms[r].units :
          /\ rooms'[r].units[i].task \notin {0, Unit(r, i).task}
               => Unit(r, i).pc = "idle" /\ Unit(r, i).task = 0
          /\ Len(rooms[r].units) = 1 /\ Unit(r, i).pc = "got" /\ rooms'[r].units[i].pc = "running"
               => Unended(r) = {}]_vars

\* the one worker of a Room is executing a Task while another Task waits in
\* the Room's queue
C20_Witness ==
  \E r \in RoomIds :
    /\ Len(rooms[r].units) = 1
    /\ Unit(r, 1).pc = "running"
    /\ Executing(r) = {Unit(r, 1).task}
    /\ rooms[r].queue # <<>>

====
